---- MODULE Spec2Model ----
(***************************************************************************)
(* Size-aggregation engine of the disk-usage inspector: the recursive      *)
(* accumulator calculate_total_size, the first-layer collector             *)
(* get_first_layer_full_sizes (parallel in main.rs, sequential in          *)
(* helpers.rs) and the report that main prints.                            *)
(***************************************************************************)
EXTENDS Integers, Sequences, FiniteSets, TLC

(* ------------------------------------------------------------------ *)
(* Bounds of the model                                                 *)
(* ------------------------------------------------------------------ *)
\* byte lengths of non-directory entries are drawn from 1..MaxSize
MaxSize == 2
\* at most this many filesystem calls fail in one scanned tree
MaxFaults == 1
\* threads of the rayon pool
NumWorkers == 2
\* the visit counter of an entry stops counting here
MaxVisits == 2

Workers == 1..NumWorkers

(* ------------------------------------------------------------------ *)
(* The filesystem the program reads                                    *)
(* ------------------------------------------------------------------ *)
\* folder_path, the scanned root
Root == 0
\* the places a tree can have an entry: 1, 2, 3 lie directly below the
\* root, 4 below 1, 5 below 4
Nodes == 0..5
Below == 1..5
Parent == [n \in Below |-> IF n \in {1, 2, 3} THEN Root ELSE IF n = 4 THEN 1 ELSE 4]

PermissionDenied == "PermissionDenied"
NotFound == "NotFound"
ErrorKinds == {PermissionDenied, NotFound}

\* what lies at a place: a directory, a regular file, a symbolic link to a
\* directory, or nothing
Kinds == {"absent", "dir", "file", "symlink"}

\* which filesystem call on an entry fails: the read_dir iterator item
\* ("entry"), DirEntry::metadata ("meta") or fs::read_dir of it ("read")
NoFault == [pt |-> "none", err |-> "none"]
Faults == [pt : {"entry", "meta", "read"}, err : ErrorKinds]

VARIABLES
    kind,       \* kind[n]: what lies at place n
    len,        \* len[n]: metadata.len() of n
    fault,      \* fault[n]: the filesystem call on n that fails, if any
    pc,         \* position of the program
    call,       \* the function the sequential driver ran last
    arg,        \* the path it was given
    ret,        \* what it returned
    order,      \* iteration order of the HashMap main holds
    stdout,     \* what main printed to standard output
    stderr,     \* what main printed to standard error
    entries,    \* parallel collector: the root's listed entries
    task,       \* parallel collector: state of each listed entry's closure
    worker,     \* parallel collector: each pool thread's state
    pos,        \* parallel collector: position of the progress bar
    pblen,      \* parallel collector: length of the progress bar
    visits      \* parallel collector: times each entry was visited

vars == <<kind, len, fault, pc, call, arg, ret, order, stdout, stderr,
          entries, task, worker, pos, pblen, visits>>

fsvars == <<kind, len, fault>>
seqvars == <<call, arg, ret, order, stdout, stderr>>
parvars == <<entries, task, worker, pos, pblen, visits>>

(* ------------------------------------------------------------------ *)
(* io::Result                                                          *)
(* ------------------------------------------------------------------ *)
Ok(v) == [ok |-> TRUE, val |-> v, err |-> "none"]
Err(e) == [ok |-> FALSE, val |-> 0, err |-> e]

(* ------------------------------------------------------------------ *)
(* Filesystem calls                                                    *)
(* ------------------------------------------------------------------ *)
RECURSIVE SeqOfSet(_)
SeqOfSet(S) ==
    IF S = {} THEN <<>>
    ELSE LET m == CHOOSE x \in S : \A y \in S : x <= y
         IN <<m>> \o SeqOfSet(S \ {m})

ChildrenOf(path) == {n \in Below : Parent[n] = path /\ kind[n] # "absent"}

\* one item of the ReadDir iterator: io::Result<DirEntry>
DirItem(n) ==
    IF fault[n].pt = "entry" THEN Err(fault[n].err) ELSE Ok(n)

\* fs::read_dir(path): the listing of a directory, in directory order
read_dir(path) ==
    IF kind[path] = "absent" THEN Err(NotFound)
    ELSE IF fault[path].pt = "read" THEN Err(fault[path].err)
    ELSE LET s == SeqOfSet(ChildrenOf(path))
         IN Ok([i \in 1..Len(s) |-> DirItem(s[i])])

\* DirEntry::metadata(): does not follow symbolic links
metadata(n) ==
    IF fault[n].pt = "meta" THEN Err(fault[n].err)
    ELSE Ok([is_dir |-> kind[n] = "dir", len |-> len[n]])

\* Path::is_dir() and Path::is_file(): follow symbolic links, false on error
path_is_dir(n) == kind[n] \in {"dir", "symlink"}
path_is_file(n) == kind[n] = "file"

(* ------------------------------------------------------------------ *)
(* calculate_total_size, main.rs                                       *)
(* ------------------------------------------------------------------ *)
RECURSIVE calculate_total_size(_)
RECURSIVE calculate_loop(_, _, _)

\* calculate_loop with a directory's own metadata.len() added to the total
calculate_loop_counting_dirs(items, i, total_size) ==
    IF i > Len(items) THEN Ok(total_size)
    ELSE IF ~items[i].ok
    THEN IF items[i].err = PermissionDenied
         THEN calculate_loop(items, i + 1, total_size)
         ELSE Err(items[i].err)
    ELSE LET entry == items[i].val
             md == metadata(entry)
         IN IF ~md.ok
            THEN IF md.err = PermissionDenied
                 THEN calculate_loop(items, i + 1, total_size)
                 ELSE Err(md.err)
            ELSE IF md.val.is_dir
            THEN LET sub == calculate_total_size(entry)
                 IN IF sub.ok
                    THEN calculate_loop(items, i + 1, total_size + md.val.len + sub.val)
                    ELSE Err(sub.err)
            ELSE calculate_loop(items, i + 1, total_size + md.val.len)

\* the for loop over the entries, from entry i on, with total_size so far
calculate_loop(items, i, total_size) ==
    IF i > Len(items) THEN Ok(total_size)
    ELSE IF ~items[i].ok
    THEN IF items[i].err = PermissionDenied
         THEN calculate_loop(items, i + 1, total_size)
         ELSE Err(items[i].err)
    ELSE LET entry == items[i].val
             md == metadata(entry)
         IN IF ~md.ok
            THEN IF md.err = PermissionDenied
                 THEN calculate_loop(items, i + 1, total_size)
                 ELSE Err(md.err)
            ELSE IF md.val.is_dir
            THEN LET sub == calculate_total_size(entry)
                 IN IF sub.ok
                    THEN calculate_loop(items, i + 1, total_size + sub.val)
                    ELSE Err(sub.err)
            ELSE calculate_loop(items, i + 1, total_size + md.val.len)

\* calculate_total_size with every failure of the listing skipped
calculate_total_size_skip_any(path) ==
    LET rd == read_dir(path)
    IN IF rd.ok THEN calculate_loop(rd.val, 1, 0) ELSE Ok(0)

calculate_total_size(path) ==
    LET rd == read_dir(path)
    IN IF rd.ok THEN calculate_loop(rd.val, 1, 0)
       ELSE IF rd.err = PermissionDenied THEN Ok(0)
       ELSE Err(rd.err)

(* ------------------------------------------------------------------ *)
(* calculate_total_size, helpers.rs                                    *)
(* ------------------------------------------------------------------ *)
RECURSIVE helpers_calculate_total_size(_)
RECURSIVE helpers_calculate_loop(_, _, _)

helpers_calculate_loop(items, i, total_size) ==
    IF i > Len(items) THEN Ok(total_size)
    ELSE IF ~items[i].ok
    THEN IF items[i].err = PermissionDenied
         THEN helpers_calculate_loop(items, i + 1, total_size)
         ELSE Err(items[i].err)
    ELSE LET entry == items[i].val
             md == metadata(entry)
         IN IF ~md.ok
            THEN IF md.err = PermissionDenied
                 THEN helpers_calculate_loop(items, i + 1, total_size)
                 ELSE Err(md.err)
            ELSE IF md.val.is_dir
            THEN LET sub == helpers_calculate_total_size(entry)
                 IN IF sub.ok
                    THEN helpers_calculate_loop(items, i + 1, total_size + sub.val)
                    ELSE Err(sub.err)
            ELSE helpers_calculate_loop(items, i + 1, total_size + md.val.len)

\* fs::read_dir(path)? : every error of the listing is returned
helpers_calculate_total_size(path) ==
    LET rd == read_dir(path)
    IN IF rd.ok THEN helpers_calculate_loop(rd.val, 1, 0)
       ELSE Err(rd.err)

(* ------------------------------------------------------------------ *)
(* get_first_layer_full_sizes, main.rs                                 *)
(* ------------------------------------------------------------------ *)
None == [some |-> FALSE, path |-> 0, size |-> 0]
Some(p, s) == [some |-> TRUE, path |-> p, size |-> s]

\* let entries: Vec<DirEntry> = read_dir(..)?.filter_map(|entry| entry.ok())
RECURSIVE ok_entries(_)
ok_entries(items) ==
    IF items = <<>> THEN <<>>
    ELSE IF Head(items).ok THEN <<Head(items).val>> \o ok_entries(Tail(items))
    ELSE ok_entries(Tail(items))

\* the closure with a failed accumulation kept as size 0 (unwrap_or(0))
first_layer_closure_zero_on_error(entry) ==
    LET md == metadata(entry)
    IN IF ~md.ok THEN None
       ELSE IF md.val.is_dir
       THEN LET size == calculate_total_size(entry)
            IN IF size.ok THEN Some(entry, size.val) ELSE Some(entry, 0)
       ELSE Some(entry, md.val.len)

\* the closure given to filter_map: what one listed entry contributes
first_layer_closure(entry) ==
    LET md == metadata(entry)
    IN IF ~md.ok THEN None
       ELSE IF md.val.is_dir
       THEN LET size == calculate_total_size(entry)
            IN IF size.ok THEN Some(entry, size.val) ELSE None
       ELSE Some(entry, md.val.len)

\* collect::<HashMap<PathBuf, u64>>() of the pairs the closure kept
collect_map(pairs) ==
    LET keys == {pairs[i].path : i \in 1..Len(pairs)}
    IN [p \in keys |-> LET i == CHOOSE j \in 1..Len(pairs) :
                                    /\ pairs[j].path = p
                                    /\ \A k \in j + 1..Len(pairs) : pairs[k].path # p
                       IN pairs[i].size]

RECURSIVE filter_map_closure(_)
filter_map_closure(es) ==
    IF es = <<>> THEN <<>>
    ELSE LET r == first_layer_closure(Head(es))
         IN IF r.some THEN <<r>> \o filter_map_closure(Tail(es))
            ELSE filter_map_closure(Tail(es))

\* get_first_layer_full_sizes with a failed listing taken as empty
get_first_layer_full_sizes_unwrap(start_path) ==
    LET rd == read_dir(start_path)
    IN IF ~rd.ok THEN Ok(collect_map(<<>>))
       ELSE Ok(collect_map(filter_map_closure(ok_entries(rd.val))))

\* the function's result when the closure is applied to the entries one
\* after the other
get_first_layer_full_sizes(start_path) ==
    LET rd == read_dir(start_path)
    IN IF ~rd.ok THEN Err(rd.err)
       ELSE Ok(collect_map(filter_map_closure(ok_entries(rd.val))))

(* ------------------------------------------------------------------ *)
(* get_first_layer_full_sizes, helpers.rs                              *)
(* ------------------------------------------------------------------ *)
RECURSIVE helpers_first_layer_loop(_, _, _)
helpers_first_layer_loop(items, i, folder_sizes) ==
    IF i > Len(items) THEN Ok(folder_sizes)
    ELSE IF ~items[i].ok
    THEN IF items[i].err = PermissionDenied
         THEN helpers_first_layer_loop(items, i + 1, folder_sizes)
         ELSE Err(items[i].err)
    ELSE LET entry == items[i].val
             md == metadata(entry)
         IN IF ~md.ok
            THEN IF md.err = PermissionDenied
                 THEN helpers_first_layer_loop(items, i + 1, folder_sizes)
                 ELSE Err(md.err)
            ELSE IF md.val.is_dir
            THEN LET subdir_size == helpers_calculate_total_size(entry)
                 IN IF subdir_size.ok
                    THEN helpers_first_layer_loop(items, i + 1,
                             folder_sizes \o <<Some(entry, subdir_size.val)>>)
                    ELSE Err(subdir_size.err)
            ELSE helpers_first_layer_loop(items, i + 1,
                     folder_sizes \o <<Some(entry, md.val.len)>>)

helpers_get_first_layer_full_sizes(start_path) ==
    LET rd == read_dir(start_path)
    IN IF ~rd.ok THEN Err(rd.err)
       ELSE LET r == helpers_first_layer_loop(rd.val, 1, <<>>)
            IN IF r.ok THEN Ok(collect_map(r.val)) ELSE Err(r.err)

(* ------------------------------------------------------------------ *)
(* format_size                                                         *)
(* ------------------------------------------------------------------ *)
KB == 1024
MB == KB * 1024
GB == MB * 1024

\* the number printed and its unit; above KB the number is in hundredths
\* of the unit ({:.2}), rounded to the nearest
format_size(size) ==
    IF size >= GB THEN [num |-> (size * 100 + GB \div 2) \div GB, unit |-> "GB"]
    ELSE IF size >= MB THEN [num |-> (size * 100 + MB \div 2) \div MB, unit |-> "MB"]
    ELSE IF size >= KB THEN [num |-> (size * 100 + KB \div 2) \div KB, unit |-> "KB"]
    ELSE [num |-> size, unit |-> "B"]

(* ------------------------------------------------------------------ *)
(* main                                                                *)
(* ------------------------------------------------------------------ *)
\* the orders in which a HashMap with these keys can be iterated
IterationOrders(keys) ==
    {s \in [1..Cardinality(keys) -> keys] :
        \A i, j \in 1..Cardinality(keys) : i # j => s[i] # s[j]}

\* folder_sizes.iter() as a sequence of (path, size) pairs
iter(folder_sizes, ord) ==
    [i \in 1..Len(ord) |-> [path |-> ord[i], size |-> folder_sizes[ord[i]]]]

\* the sum without its last value
RECURSIVE values_sum_short(_)
values_sum_short(pairs) ==
    IF Len(pairs) <= 1 THEN 0 ELSE Head(pairs).size + values_sum_short(Tail(pairs))

\* folder_sizes.values().sum()
RECURSIVE values_sum(_)
values_sum(pairs) ==
    IF pairs = <<>> THEN 0 ELSE Head(pairs).size + values_sum(Tail(pairs))

\* .filter(|(path, _)| path.is_dir()).collect()
RECURSIVE filter_is_dir(_)
filter_is_dir(pairs) ==
    IF pairs = <<>> THEN <<>>
    ELSE IF path_is_dir(Head(pairs).path)
    THEN <<Head(pairs)>> \o filter_is_dir(Tail(pairs))
    ELSE filter_is_dir(Tail(pairs))

\* .filter(|(path, _)| path.is_file()).collect()
RECURSIVE filter_is_file(_)
filter_is_file(pairs) ==
    IF pairs = <<>> THEN <<>>
    ELSE IF path_is_file(Head(pairs).path)
    THEN <<Head(pairs)>> \o filter_is_file(Tail(pairs))
    ELSE filter_is_file(Tail(pairs))

\* insert_by_key of an unstable sort: x goes in front of its equals
insert_by_key_unstable(sorted, x) ==
    LET before == {i \in 1..Len(sorted) : sorted[i].size > x.size}
        k == Cardinality(before)
    IN SubSeq(sorted, 1, k) \o <<x>> \o SubSeq(sorted, k + 1, Len(sorted))

\* where a stable descending sort puts x into the sorted sequence: behind
\* every element whose size is at least x's
insert_by_key(sorted, x) ==
    LET before == {i \in 1..Len(sorted) : sorted[i].size >= x.size}
        k == Cardinality(before)
    IN SubSeq(sorted, 1, k) \o <<x>> \o SubSeq(sorted, k + 1, Len(sorted))

\* sort_by_key(|(_, size)| Reverse(*size)): a stable sort, largest first
RECURSIVE sort_by_key(_)
sort_by_key(pairs) ==
    IF pairs = <<>> THEN <<>>
    ELSE insert_by_key(sort_by_key(SubSeq(pairs, 1, Len(pairs) - 1)),
                       pairs[Len(pairs)])

table_rows(pairs, glyph) ==
    [i \in 1..Len(pairs) |->
        [line |-> glyph, path |-> pairs[i].path, size |-> pairs[i].size,
         text |-> format_size(pairs[i].size)]]

\* everything main prints to standard output for a listed directory
report(folder_sizes, ord) ==
    LET pairs == iter(folder_sizes, ord)
        total_size == values_sum(pairs)
        folders == sort_by_key(filter_is_dir(pairs))
        files == sort_by_key(filter_is_file(pairs))
    IN <<[line |-> "headline", path |-> Root, size |-> total_size,
          text |-> format_size(total_size)]>>
       \o <<[line |-> "header", path |-> Root, size |-> 0, text |-> format_size(0)]>>
       \o table_rows(folders, "folder")
       \o table_rows(files, "file")

(* ------------------------------------------------------------------ *)
(* Initial states: the trees the program can be pointed at             *)
(* ------------------------------------------------------------------ *)
WellFormed(k) ==
    /\ k[Root] # "symlink"
    /\ \A n \in Below : k[n] # "absent" => k[Parent[n]] = "dir"

FaultFits(n, f) ==
    /\ kind[n] # "absent"
    /\ f.pt = "read" => (kind[n] = "dir" \/ n = Root)
    /\ f.pt \in {"entry", "meta"} => n \in Below

InitTree ==
    /\ kind \in [Nodes -> Kinds]
    /\ WellFormed(kind)

\* a file is 1..MaxSize bytes long; a directory and a link have a length
\* of their own as well
InitLens ==
    \E c \in [{n \in Nodes : kind[n] = "file"} -> 1..MaxSize] :
        len = [n \in Nodes |->
                  IF kind[n] = "file" THEN c[n]
                  ELSE IF kind[n] = "absent" THEN 0 ELSE MaxSize]

InitFaults ==
    \E S \in SUBSET Nodes :
        /\ Cardinality(S) <= MaxFaults
        /\ \E g \in [S -> Faults] :
              /\ \A n \in S : FaultFits(n, g[n])
              /\ fault = [n \in Nodes |-> IF n \in S THEN g[n] ELSE NoFault]

InitFs ==
    /\ InitTree
    /\ InitLens
    /\ InitFaults

InitProgram ==
    /\ pc = "start"
    /\ call = "none"
    /\ arg = Root
    /\ ret = Ok(0)
    /\ order = <<>>
    /\ stdout = <<>>
    /\ stderr = <<>>
    /\ entries = <<>>
    /\ task = <<>>
    /\ worker = [w \in Workers |-> [job |-> 0, stack |-> <<>>, local |-> <<>>]]
    /\ pos = 0
    /\ pblen = 0
    /\ visits = [n \in Nodes |-> 0]

Init ==
    /\ InitFs
    /\ InitProgram

(* ------------------------------------------------------------------ *)
(* The functions, each run from start to return                        *)
(* ------------------------------------------------------------------ *)
Dirs == {n \in Nodes : kind[n] = "dir"}

Returned(name, path, r) ==
    /\ pc' = "returned"
    /\ call' = name
    /\ arg' = path
    /\ ret' = r

RunCalculateTotalSize ==
    /\ pc = "start"
    /\ \E path \in Dirs : Returned("calculate_total_size", path, calculate_total_size(path))
    /\ UNCHANGED <<fsvars, parvars, order, stdout, stderr>>

RunHelpersCalculateTotalSize ==
    /\ pc = "start"
    /\ \E path \in Dirs :
          Returned("helpers::calculate_total_size", path, helpers_calculate_total_size(path))
    /\ UNCHANGED <<fsvars, parvars, order, stdout, stderr>>

RunGetFirstLayerFullSizes ==
    /\ pc = "start"
    /\ kind[Root] # "file"
    /\ Returned("get_first_layer_full_sizes", Root, get_first_layer_full_sizes(Root))
    /\ UNCHANGED <<fsvars, parvars, order, stdout, stderr>>

RunHelpersGetFirstLayerFullSizes ==
    /\ pc = "start"
    /\ kind[Root] # "file"
    /\ Returned("helpers::get_first_layer_full_sizes", Root,
                helpers_get_first_layer_full_sizes(Root))
    /\ UNCHANGED <<fsvars, parvars, order, stdout, stderr>>

\* main on a path that is a file: the preview branch
MainFile ==
    /\ pc = "start"
    /\ path_is_file(Root)
    /\ Returned("main", Root, Ok(0))
    /\ order' = <<>>
    /\ IF fault[Root].pt = "none"
       THEN /\ stdout' = <<[line |-> "content", path |-> Root, size |-> len[Root],
                            text |-> format_size(len[Root])]>>
            /\ stderr' = <<>>
       ELSE /\ stdout' = <<>>
            /\ stderr' = <<[msg |-> "Error reading file", err |-> fault[Root].err]>>
    /\ UNCHANGED <<fsvars, parvars>>

\* main on a path whose listing fails
MainError ==
    /\ pc = "start"
    /\ ~path_is_file(Root)
    /\ LET r == get_first_layer_full_sizes(Root)
       IN /\ ~r.ok
          /\ Returned("main", Root, Err(r.err))
          /\ stderr' = <<[msg |-> "Error calculating folder size", err |-> r.err]>>
    /\ stdout' = <<>>
    /\ order' = <<>>
    /\ UNCHANGED <<fsvars, parvars>>

\* main on a directory it can list
MainReport ==
    /\ pc = "start"
    /\ ~path_is_file(Root)
    /\ LET r == get_first_layer_full_sizes(Root)
       IN /\ r.ok
          /\ \E ord \in IterationOrders(DOMAIN r.val) :
                /\ order' = ord
                /\ stdout' = report(r.val, ord)
    /\ Returned("main", Root, Ok(0))
    /\ stderr' = <<>>
    /\ UNCHANGED <<fsvars, parvars>>

NextSeq ==
    \/ RunCalculateTotalSize
    \/ RunHelpersCalculateTotalSize
    \/ RunGetFirstLayerFullSizes
    \/ RunHelpersGetFirstLayerFullSizes
    \/ MainFile
    \/ MainError
    \/ MainReport

Spec == Init /\ [][NextSeq]_vars

(* ------------------------------------------------------------------ *)
(* get_first_layer_full_sizes of main.rs, thread by thread             *)
(* ------------------------------------------------------------------ *)
\* One step of a pool thread handles one directory entry. A call of
\* calculate_total_size is a stack of frames, one per directory being
\* listed: its path, its listing, the index of the entry the for loop is
\* at and total_size so far.
Frame(path, items) == [path |-> path, items |-> items, i |-> 1, total |-> 0]
Running(stack) == [done |-> FALSE, stack |-> stack, r |-> Ok(0)]
Finished(r) == [done |-> TRUE, stack |-> <<>>, r |-> r]

Top(stack) == stack[Len(stack)]
Pop(stack) == SubSeq(stack, 1, Len(stack) - 1)
SetTop(stack, f) == [stack EXCEPT ![Len(stack)] = f]

\* the frame going on without advancing to its next entry
frame_resume_stay(f, r) == f

\* total_size += calculate_total_size(..)? with the value returned, and on
\* to the next entry
frame_resume(f, r) == [f EXCEPT !.total = @ + r.val, !.i = @ + 1]

RECURSIVE unwind(_, _)
RECURSIVE normalize(_)

\* the innermost call returns r to its caller: `?` passes an Err on
unwind(stack, r) ==
    IF stack = <<>> THEN Finished(r)
    ELSE IF r.ok THEN normalize(SetTop(stack, frame_resume(Top(stack), r)))
    ELSE unwind(Pop(stack), Err(r.err))

\* a for loop that has run out of entries returns Ok(total_size)
normalize(stack) ==
    IF Top(stack).i > Len(Top(stack).items)
    THEN unwind(Pop(stack), Ok(Top(stack).total))
    ELSE Running(stack)

\* calculate_total_size(path) is called: the listing is read
enter(stack, path) ==
    LET rd == read_dir(path)
    IN IF rd.ok THEN normalize(Append(stack, Frame(path, rd.val)))
       ELSE IF rd.err = PermissionDenied THEN unwind(stack, Ok(0))
       ELSE unwind(stack, Err(rd.err))

\* one iteration of the for loop of the innermost call
step(stack) ==
    LET f == Top(stack)
        item == f.items[f.i]
        skip == normalize(SetTop(stack, [f EXCEPT !.i = @ + 1]))
    IN IF ~item.ok
       THEN IF item.err = PermissionDenied THEN skip
            ELSE unwind(Pop(stack), Err(item.err))
       ELSE LET md == metadata(item.val)
            IN IF ~md.ok
               THEN IF md.err = PermissionDenied THEN skip
                    ELSE unwind(Pop(stack), Err(md.err))
               ELSE IF md.val.is_dir THEN enter(stack, item.val)
               ELSE normalize(SetTop(stack,
                        [f EXCEPT !.total = @ + md.val.len, !.i = @ + 1]))

\* the entry the innermost for loop is at
CurrentEntry(stack) ==
    SeqOfSet(ChildrenOf(Top(stack).path))[Top(stack).i]

\* calculate_total_size(&entry.path()).ok()? and Some((entry.path(), size))
closure_option(entry, r) == IF r.ok THEN Some(entry, r.val) ELSE None

\* the progress bar advanced for every entry, kept or dropped
inspect_inc_always(p, opt) == p + 1

\* .inspect(|_| pb.inc(1)) behind filter_map: only kept entries count
inspect_inc(p, opt) == IF opt.some THEN p + 1 ELSE p

RECURSIVE concat_locals(_)
concat_locals(w) ==
    IF w = 0 THEN <<>> ELSE concat_locals(w - 1) \o worker[w].local

Visit(n) == visits' = [visits EXCEPT ![n] = IF @ < MaxVisits THEN @ + 1 ELSE @]

\* the closure has its result for entry e: inspect, then the pair goes to
\* the thread's own part of the collection
Finish(w, e, opt) ==
    /\ pos' = inspect_inc(pos, opt)
    /\ worker' = [worker EXCEPT ![w] =
                     [job |-> 0, stack |-> <<>>,
                      local |-> IF opt.some THEN Append(@.local, opt) ELSE @.local]]
    /\ task' = [task EXCEPT ![e] = "done"]

Progress(w, e, m) ==
    IF m.done THEN Finish(w, e, closure_option(e, m.r))
    ELSE /\ worker' = [worker EXCEPT ![w].job = e, ![w].stack = m.stack]
         /\ task' = [task EXCEPT ![e] = "running"]
         /\ pos' = pos

\* fs::read_dir(start_path)? fails
ListRootFails ==
    /\ pc = "start"
    /\ ~read_dir(Root).ok
    /\ pc' = "returned"
    /\ call' = "par::get_first_layer_full_sizes"
    /\ ret' = Err(read_dir(Root).err)
    /\ UNCHANGED <<fsvars, parvars, arg, order, stdout, stderr>>

\* the listing is collected and the progress bar created
ListRoot ==
    /\ pc = "start"
    /\ read_dir(Root).ok
    /\ pc' = "running"
    /\ entries' = ok_entries(read_dir(Root).val)
    /\ pblen' = Len(entries')
    /\ task' = [e \in {entries'[i] : i \in 1..Len(entries')} |-> "pending"]
    /\ UNCHANGED <<fsvars, seqvars, worker, pos, visits>>

\* a free thread takes an entry and runs the closure up to its first
\* directory entry
WorkerTake(w) ==
    /\ pc = "running"
    /\ worker[w].job = 0
    /\ \E e \in DOMAIN task :
          /\ task[e] = "pending"
          /\ Visit(e)
          /\ LET md == metadata(e)
             IN IF ~md.ok THEN Finish(w, e, None)
                ELSE IF md.val.is_dir THEN Progress(w, e, enter(<<>>, e))
                ELSE Finish(w, e, Some(e, md.val.len))
    /\ UNCHANGED <<fsvars, seqvars, pc, entries, pblen>>

\* a thread inside calculate_total_size handles the next entry
WorkerStep(w) ==
    /\ pc = "running"
    /\ worker[w].job # 0
    /\ Visit(CurrentEntry(worker[w].stack))
    /\ Progress(w, worker[w].job, step(worker[w].stack))
    /\ UNCHANGED <<fsvars, seqvars, pc, entries, pblen>>

\* collect() has every entry's result: the parts are merged into the map
Join ==
    /\ pc = "running"
    /\ \A e \in DOMAIN task : task[e] = "done"
    /\ pc' = "returned"
    /\ call' = "par::get_first_layer_full_sizes"
    /\ ret' = Ok(collect_map(concat_locals(NumWorkers)))
    /\ UNCHANGED <<fsvars, parvars, arg, order, stdout, stderr>>

NextPar ==
    \/ ListRootFails
    \/ ListRoot
    \/ \E w \in Workers : WorkerTake(w)
    \/ \E w \in Workers : WorkerStep(w)
    \/ Join

\* every thread of the pool and the collecting thread keep running
Fairness ==
    /\ WF_vars(ListRootFails)
    /\ WF_vars(ListRoot)
    /\ \A w \in Workers : WF_vars(WorkerTake(w))
    /\ \A w \in Workers : WF_vars(WorkerStep(w))
    /\ WF_vars(Join)

\* the trees of the thread-by-thread runs: every entry has a byte length
\* of its own, so that no two entries' sizes can be taken for each other
InitPar ==
    /\ InitTree
    /\ len = [n \in Nodes |-> IF kind[n] = "absent" THEN 0 ELSE MaxSize + n]
    /\ InitFaults
    /\ InitProgram

SpecPar == InitPar /\ [][NextPar]_vars

\* the trees of the termination property: entries at the places 1 and 2 of
\* the first layer and below them
InitLive ==
    /\ InitPar
    /\ kind[3] = "absent"

SpecLive == InitLive /\ [][NextPar]_vars /\ Fairness

(* ------------------------------------------------------------------ *)
(* What a tree holds, stated on the tree and not on the traversal      *)
(* ------------------------------------------------------------------ *)
\* n lies somewhere below p
RECURSIVE IsUnder(_, _)
IsUnder(n, p) ==
    /\ n \in Below
    /\ \/ Parent[n] = p
       \/ IsUnder(Parent[n], p)

\* the entries on the way from p down to n, n included and p not
Between(n, p) == {m \in Below : IsUnder(m, p) /\ (m = n \/ IsUnder(n, m))}

\* every entry at any depth below p
Descendants(p) == {n \in Below : kind[n] # "absent" /\ IsUnder(n, p)}

\* the entries below p that no failing call stands in front of
Visible(p) ==
    IF fault[p].pt = "read" THEN {}
    ELSE {n \in Descendants(p) : \A m \in Between(n, p) : fault[m] = NoFault}

\* the failing calls a traversal of p runs into when it skips each one
HitFaults(p) ==
    {n \in Nodes :
        /\ kind[n] # "absent"
        /\ fault[n] # NoFault
        /\ \/ n = p /\ fault[n].pt = "read"
           \/ /\ IsUnder(n, p)
              /\ fault[p].pt # "read"
              /\ \A m \in Between(n, p) \ {n} : fault[m] = NoFault}

NonDirs(S) == {n \in S : kind[n] # "dir"}

RECURSIVE SumLen(_)
SumLen(S) ==
    IF S = {} THEN 0
    ELSE LET n == CHOOSE x \in S : TRUE IN len[n] + SumLen(S \ {n})

RECURSIVE SumMap(_, _)
SumMap(m, keys) ==
    IF keys = {} THEN 0
    ELSE LET k == CHOOSE x \in keys : TRUE IN m[k] + SumMap(m, keys \ {k})

ReturnedFrom(name) == pc = "returned" /\ call = name

(* ------------------------------------------------------------------ *)
(* C1                                                                  *)
(* ------------------------------------------------------------------ *)
\* C1: on a tree in which no read_dir or metadata call fails,
\* calculate_total_size returns Ok(n), n the sum of the byte lengths of
\* the non-directory entries at every depth below the path; directories
\* add nothing and an empty directory gives 0.
C1_TotalIsSumOfFiles ==
    (ReturnedFrom("calculate_total_size") /\ HitFaults(arg) = {})
        => ret = Ok(SumLen(NonDirs(Descendants(arg))))

\* a fault-free tree with files at depth 1 and 3 and an empty directory
C1_Witness ==
    /\ ReturnedFrom("calculate_total_size")
    /\ arg = Root
    /\ HitFaults(Root) = {}
    /\ kind[5] = "file" /\ kind[2] = "file" /\ kind[3] = "dir"
    /\ ret = Ok(len[5] + len[2])

(* ------------------------------------------------------------------ *)
(* C2                                                                  *)
(* ------------------------------------------------------------------ *)
\* the direct children the listing yields and whose metadata is readable
ReadableChildren(p) == {n \in ChildrenOf(p) : fault[n].pt \notin {"entry", "meta"}}

\* those of them whose size the collector can compute
KeptChildren(p) ==
    {n \in ReadableChildren(p) : kind[n] = "dir" => calculate_total_size(n).ok}

ChildValue(n) == IF kind[n] = "dir" THEN calculate_total_size(n).val ELSE len[n]

\* C2 as stated: the map has exactly one entry per direct child whose
\* metadata is readable, the directory's calculate_total_size or the
\* entry's own length as value.
C2_OnePerReadableChild ==
    (ReturnedFrom("get_first_layer_full_sizes") /\ ret.ok)
        => DOMAIN ret.val = ReadableChildren(Root)

\* C2, amended: the map has exactly one entry per direct child whose
\* metadata is readable and, for a directory, whose calculate_total_size
\* returns Ok; the value is that Ok value for a directory and the entry's
\* own byte length otherwise; there are no other keys.
C2_OnePerKeptChild ==
    (ReturnedFrom("get_first_layer_full_sizes") /\ read_dir(Root).ok)
        => /\ ret.ok
           /\ DOMAIN ret.val = KeptChildren(Root)
           /\ \A n \in KeptChildren(Root) : ret.val[n] = ChildValue(n)

\* a directory child whose accumulation fails, next to a file and a
\* directory that are kept
C2_Witness ==
    /\ ReturnedFrom("get_first_layer_full_sizes")
    /\ ret.ok
    /\ kind[1] = "dir" /\ fault[1].pt = "none" /\ ~calculate_total_size(1).ok
    /\ kind[2] = "file" /\ kind[3] = "dir"
    /\ DOMAIN ret.val = {2, 3}

(* ------------------------------------------------------------------ *)
(* C3                                                                  *)
(* ------------------------------------------------------------------ *)
HeadlinePrinted ==
    /\ ReturnedFrom("main")
    /\ stdout # <<>>
    /\ stdout[1].line = "headline"

\* C3 as stated: the headline total is the sum of the sizes of the
\* entries of get_first_layer_full_sizes(root), and that sum is
\* calculate_total_size(root).
C3_HeadlineIsTotalSize ==
    HeadlinePrinted
        => LET m == get_first_layer_full_sizes(Root).val
               t == calculate_total_size(Root)
           IN /\ stdout[1].size = SumMap(m, DOMAIN m)
              /\ t.ok
              /\ t.val = stdout[1].size

\* C3, amended: the headline total is the sum of the sizes of the entries
\* of get_first_layer_full_sizes(root); it equals calculate_total_size(root)
\* whenever that call returns Ok, and otherwise it is the sum over the
\* children the collector kept.
C3_HeadlineIsSumOfEntries ==
    HeadlinePrinted
        => LET m == get_first_layer_full_sizes(Root).val
               t == calculate_total_size(Root)
           IN /\ stdout[1].size = SumMap(m, DOMAIN m)
              /\ stdout[1].text = format_size(SumMap(m, DOMAIN m))
              /\ t.ok => t.val = stdout[1].size
              /\ ~t.ok => stdout[1].size = SumLen(NonDirs(
                              UNION {IF kind[n] = "dir" THEN Visible(n) ELSE {n} :
                                     n \in KeptChildren(Root)}))

\* three first-layer entries, a nested file among them, all counted once
C3_Witness ==
    /\ HeadlinePrinted
    /\ calculate_total_size(Root).ok
    /\ kind[5] = "file" /\ kind[2] = "file" /\ kind[3] = "symlink"
    /\ stdout[1].size = len[5] + len[2] + len[3]

(* ------------------------------------------------------------------ *)
(* C4                                                                  *)
(* ------------------------------------------------------------------ *)
\* the traversal of p meets failures below p, all of them permission-denied
OnlyDenied(p) ==
    /\ HitFaults(p) # {}
    /\ p \notin HitFaults(p)
    /\ \A n \in HitFaults(p) : fault[n].err = PermissionDenied

\* C4 on calculate_total_size of main.rs: when the only failures below
\* the path are permission-denied, the call returns Ok and the total is
\* the sum over what no denied call stands in front of.
C4_MainAbsorbsDenied ==
    (ReturnedFrom("calculate_total_size") /\ OnlyDenied(arg))
        => ret = Ok(SumLen(NonDirs(Visible(arg))))

\* C4 on calculate_total_size of helpers.rs: the same statement.
C4_HelpersAbsorbsDenied ==
    (ReturnedFrom("helpers::calculate_total_size") /\ OnlyDenied(arg))
        => ret = Ok(SumLen(NonDirs(Visible(arg))))

\* a directory whose listing is denied, next to a sibling that is counted
C4_Witness ==
    /\ ReturnedFrom("calculate_total_size")
    /\ arg = Root
    /\ kind[1] = "dir" /\ fault[1] = [pt |-> "read", err |-> PermissionDenied]
    /\ kind[4] = "file" /\ kind[2] = "file"
    /\ ret = Ok(len[2] + SumLen(NonDirs({3} \cap Visible(Root))))

(* ------------------------------------------------------------------ *)
(* C5                                                                  *)
(* ------------------------------------------------------------------ *)
\* first-layer directories whose accumulation fails for another reason
\* than permission-denied
FailedChildren(p) ==
    {n \in ReadableChildren(p) :
        /\ kind[n] = "dir"
        /\ ~calculate_total_size(n).ok}

HelpersFailedChildren(p) ==
    {n \in ReadableChildren(p) :
        /\ kind[n] = "dir"
        /\ ~helpers_calculate_total_size(n).ok
        /\ helpers_calculate_total_size(n).err # PermissionDenied}

\* C5 on get_first_layer_full_sizes of main.rs: a child directory whose
\* accumulation fails is left out, the call returns Ok and every other
\* child has its entry.
C5_MainSkipsFailedChild ==
    (/\ ReturnedFrom("get_first_layer_full_sizes")
     /\ read_dir(Root).ok
     /\ FailedChildren(Root) # {})
        => /\ ret.ok
           /\ DOMAIN ret.val = ReadableChildren(Root) \ FailedChildren(Root)
           /\ \A n \in DOMAIN ret.val : ret.val[n] = ChildValue(n)

\* C5 on get_first_layer_full_sizes of helpers.rs: the call returns Ok
\* when a child directory's accumulation fails.
C5_HelpersSkipsFailedChild ==
    (/\ ReturnedFrom("helpers::get_first_layer_full_sizes")
     /\ read_dir(Root).ok
     /\ HelpersFailedChildren(Root) # {})
        => ret.ok

C5_Witness ==
    /\ ReturnedFrom("get_first_layer_full_sizes")
    /\ FailedChildren(Root) = {1}
    /\ kind[4] = "dir" /\ fault[4] = [pt |-> "read", err |-> NotFound]
    /\ ret.ok
    /\ DOMAIN ret.val = {2, 3}

(* ------------------------------------------------------------------ *)
(* C6                                                                  *)
(* ------------------------------------------------------------------ *)
\* C6: when the root cannot be listed, get_first_layer_full_sizes returns
\* that error, and main prints one error message, returns the error and
\* prints neither a headline nor a table row.
C6_UnlistableRootIsFatal ==
    (pc = "returned" /\ ~path_is_file(Root) /\ ~read_dir(Root).ok)
        => /\ call = "get_first_layer_full_sizes"
                => (~ret.ok /\ ret.err = read_dir(Root).err)
           /\ call = "main"
                => /\ ~ret.ok
                   /\ ret.err = read_dir(Root).err
                   /\ stderr = <<[msg |-> "Error calculating folder size",
                                  err |-> read_dir(Root).err]>>
                   /\ stdout = <<>>

\* main on a directory whose listing is denied, with entries in it
C6_Witness ==
    /\ ReturnedFrom("main")
    /\ kind[Root] = "dir"
    /\ fault[Root] = [pt |-> "read", err |-> PermissionDenied]
    /\ kind[2] = "file"
    /\ ~ret.ok
    /\ stdout = <<>>

(* ------------------------------------------------------------------ *)
(* C7                                                                  *)
(* ------------------------------------------------------------------ *)
HitsNotFound(p) == \E n \in HitFaults(p) : fault[n].err = NotFound

\* C7 as stated: an entry or directory whose call fails with not-found
\* is skipped like a denied one, and calculate_total_size returns Ok with
\* the sum over the rest.
C7_NotFoundIsSkipped ==
    (ReturnedFrom("calculate_total_size") /\ HitsNotFound(arg))
        => ret = Ok(SumLen(NonDirs(Visible(arg))))

\* C7, amended: a read_dir or metadata call that fails with not-found
\* during the traversal is not skipped: calculate_total_size stops and
\* returns that error, whatever the siblings hold.
C7_NotFoundIsReturned ==
    (ReturnedFrom("calculate_total_size") /\ HitsNotFound(arg))
        => ret = Err(NotFound)

\* a nested directory that vanished, next to siblings with bytes
C7_Witness ==
    /\ ReturnedFrom("calculate_total_size")
    /\ arg = Root
    /\ kind[4] = "dir" /\ fault[4] = [pt |-> "read", err |-> NotFound]
    /\ kind[2] = "file" /\ kind[3] = "file"
    /\ ret = Err(NotFound)

(* ------------------------------------------------------------------ *)
(* C8                                                                  *)
(* ------------------------------------------------------------------ *)
\* the table's rows in printed order, without headline and header
Rows == SubSeq(stdout, 3, Len(stdout))

\* where the HashMap's iteration yields a path
IterIndex(p) == CHOOSE i \in 1..Len(order) : order[i] = p

\* C8 as stated: over all rows, directories and files together, an
\* earlier row's size is at least a later row's.
C8_AllRowsDescending ==
    HeadlinePrinted
        => \A i, j \in 1..Len(Rows) : i < j => Rows[i].size >= Rows[j].size

\* C8, amended: the rows of the directories come first and the rows of
\* the files after them; within the directories and within the files the
\* sizes are non-increasing and rows of equal size keep the order the
\* map's iteration gave them; an entry that is neither is not printed.
C8_RowsDescendingPerGroup ==
    HeadlinePrinted
        => LET m == get_first_layer_full_sizes(Root).val
           IN /\ \A i, j \in 1..Len(Rows) :
                    i < j =>
                       /\ Rows[i].line = "file" => Rows[j].line = "file"
                       /\ Rows[i].path # Rows[j].path
                       /\ Rows[i].line = Rows[j].line =>
                             /\ Rows[i].size >= Rows[j].size
                             /\ Rows[i].size = Rows[j].size =>
                                   IterIndex(Rows[i].path) < IterIndex(Rows[j].path)
              /\ {Rows[i].path : i \in 1..Len(Rows)}
                    = {p \in DOMAIN m : path_is_dir(p) \/ path_is_file(p)}
              /\ \A i \in 1..Len(Rows) :
                    /\ Rows[i].size = m[Rows[i].path]
                    /\ Rows[i].text = format_size(m[Rows[i].path])
                    /\ Rows[i].line = "folder" <=> path_is_dir(Rows[i].path)
                    /\ Rows[i].line = "file" <=> path_is_file(Rows[i].path)

\* two files of equal size printed in iteration order behind a directory
\* that is smaller than both
C8_Witness ==
    /\ HeadlinePrinted
    /\ Len(Rows) = 3
    /\ Rows[1].line = "folder" /\ Rows[2].line = "file" /\ Rows[3].line = "file"
    /\ Rows[1].size < Rows[2].size
    /\ Rows[2].size = Rows[3].size
    /\ Rows[2].path > Rows[3].path

(* ------------------------------------------------------------------ *)
(* C9                                                                  *)
(* ------------------------------------------------------------------ *)
ParReturned == ReturnedFrom("par::get_first_layer_full_sizes")

\* C9: for every interleaving of the pool threads, the function returns
\* only after every entry's closure has finished; the map it returns is
\* the one the closure applied to the entries one after the other gives,
\* and the one the sequential loop of helpers.rs gives when that returns Ok;
\* the progress bar was advanced once per returned entry and never
\* beyond the number of listed entries.
C9_ParallelMatchesSequential ==
    /\ pos <= pblen
    /\ pc = "running" => pos = Cardinality({e \in DOMAIN task : task[e] = "done"
                                               /\ e \in KeptChildren(Root)})
    /\ ParReturned =>
          /\ \A e \in DOMAIN task : task[e] = "done"
          /\ \A w \in Workers : worker[w].job = 0
          /\ ret.ok = get_first_layer_full_sizes(Root).ok
          /\ ret.ok =>
                /\ DOMAIN ret.val = DOMAIN get_first_layer_full_sizes(Root).val
                /\ \A e \in DOMAIN ret.val :
                      ret.val[e] = get_first_layer_full_sizes(Root).val[e]
                /\ pos = Cardinality(DOMAIN ret.val)
                /\ pblen = Len(entries)
                /\ Len(concat_locals(NumWorkers)) = Cardinality(DOMAIN ret.val)
          /\ ~ret.ok => ret.err = get_first_layer_full_sizes(Root).err
          /\ helpers_get_first_layer_full_sizes(Root).ok =>
                /\ ret.ok
                /\ DOMAIN ret.val = DOMAIN helpers_get_first_layer_full_sizes(Root).val
                /\ \A e \in DOMAIN ret.val :
                      ret.val[e] = helpers_get_first_layer_full_sizes(Root).val[e]

\* both threads contributed, one entry was dropped, two were kept
C9_Witness ==
    /\ ParReturned
    /\ ret.ok
    /\ Len(entries) = 3
    /\ \A w \in {1, 2} : Len(worker[w].local) = 1
    /\ pos = 2
    /\ kind[5] # "absent"

(* ------------------------------------------------------------------ *)
(* C10                                                                 *)
(* ------------------------------------------------------------------ *)
\* a thread that holds an entry can take its next step whatever the
\* other threads do
NoWorkerWaits ==
    \A w \in Workers : (pc = "running" /\ worker[w].job # 0) => ENABLED WorkerStep(w)

VisitedAtMostOnce == \A n \in Nodes : visits[n] <= 1

\* C10: on every finite tree, symbolic links not followed, the scan
\* ends: with every thread kept running get_first_layer_full_sizes
\* returns, no entry is visited twice on the way and no thread waits on
\* another entry's computation.
C10_ScanTerminates ==
    /\ [](VisitedAtMostOnce /\ NoWorkerWaits)
    /\ <>(pc = "returned")

\* a returned scan that went three directories deep and met a symbolic
\* link, each entry visited once
C10_Witness ==
    /\ ParReturned
    /\ ret.ok
    /\ kind[5] = "symlink" /\ kind[2] = "symlink"
    /\ \A n \in {1, 2, 4, 5} : visits[n] = 1

====
